---------------------------- MODULE Spec2Model ----------------------------
(***************************************************************************)
(* External memory management (EMM) plugins of session-5/examples:         *)
(*                                                                         *)
(*   cupy_emm_plugin.py    CuPyNumbaManager, the pool-backed strategy: it  *)
(*                         allocates from CuPy's default memory pool and   *)
(*                         keeps a table _allocations of pool pointers.    *)
(*   simple_emm_plugin.py  MyEMMPlugin, the direct strategy: cudaMalloc /  *)
(*                         cudaFree through ctypes.                        *)
(*                                                                         *)
(* One process runs one plugin (NUMBA_CUDA_MEMORY_MANAGER names it), so    *)
(* the strategy is chosen once, in Init.  Memory is counted in allocation  *)
(* units; a device address is the index of the first unit of the block and *)
(* 0 is the null pointer.                                                  *)
(*                                                                         *)
(* The plugins call into three libraries whose code is not part of the     *)
(* repository: CuPy's memory pool, the CUDA runtime and Numba's            *)
(* MemoryPointer / HostOnlyCUDAMemoryManager.  Their behaviour is modelled *)
(* by the operators of the sections "CuPy memory pool", "CUDA runtime" and *)
(* "MemoryPointer lifetime"; everything else is the plugins' own code.     *)
(***************************************************************************)
EXTENDS Integers, Sequences, FiniteSets, TLC

(***************************************************************************)
(* Bounds of the model.                                                    *)
(***************************************************************************)
\* Device memory, in allocation units.
Capacity == 2
\* MemoryPointer objects created over a run.
MaxAllocs == 2
\* Strong references held on one MemoryPointer at a time.
MaxRefs == 2
\* Nesting depth of defer_cleanup scopes.
MaxDepth == 1

\* CuPy rounds every request up to a multiple of this many bytes.
ALLOCATION_UNIT_SIZE == 512

\* The manager instances of the process (one per device context).
Managers == {"ctx0", "ctx1"}

\* MyEMMPlugin keeps no state of its own (all of it is the device's), so one
\* instance stands for every instance of the direct strategy.
DirectManagers == {"ctx0"}

\* Request sizes in bytes: negative, zero, one that needs rounding, and an
\* exact multiple of the allocation unit.
Sizes == {-1, 0, 300, 1024}

None == "None"
POOL == "default_memory_pool"

VARIABLES
    strategy,     \* "cupy" | "simple": the plugin the process runs
    initCalled,   \* manager -> BOOLEAN: initialize() has been called (history)
    mp,           \* manager -> None | POOL: CuPyNumbaManager._mp
    allocations,  \* manager -> [address -> allocation]: CuPyNumbaManager._allocations
    ptrs,         \* sequence of the MemoryPointer objects created so far
    deferDepth,   \* manager -> number of active defer_cleanup scopes
    chunks,       \* device memory: the pool's chunks (cupy) or cudaMalloc blocks (simple)
    last          \* the last call and how it ended

vars == <<strategy, initCalled, mp, allocations, ptrs, deferDepth, chunks, last>>

(***************************************************************************)
(* Helpers.                                                                *)
(***************************************************************************)
RECURSIVE SumSizes(_)
SumSizes(c) ==
    IF c = {} THEN 0
    ELSE LET k == CHOOSE x \in c : TRUE IN k.size + SumSizes(c \ {k})

\* _round_size: a request in bytes as a number of allocation units.
Units(nbytes) == (nbytes + ALLOCATION_UNIT_SIZE - 1) \div ALLOCATION_UNIT_SIZE

\* The largest request, in units.  An address range of Capacity * MaxUnits
\* units always holds a free gap for a request the device has room for.
MaxUnits == Units(CHOOSE s \in Sizes : \A t \in Sizes : t <= s)
AddrSpace == Capacity * MaxUnits

Overlaps(c, b, r) == \E k \in c : b < k.base + k.size /\ k.base < b + r

\* The device places a new block at the lowest address range that is free.
DeviceBase(c, r) ==
    CHOOSE b \in 1..AddrSpace :
        /\ b + r - 1 <= AddrSpace
        /\ ~Overlaps(c, b, r)
        /\ \A b2 \in 1..(b - 1) : Overlaps(c, b2, r)

DeviceHasRoom(c, r) == SumSizes(c) + r <= Capacity

Call(op, m, arg, res, backend) ==
    [op |-> op, mgr |-> m, arg |-> arg, res |-> res, backend |-> backend,
     ret |-> 0, free |-> 0, total |-> 0]

(***************************************************************************)
(* CuPy memory pool (cupy.cuda.MemoryPool), shared by all managers.        *)
(* A chunk is [base, size, mem, used]: mem is the base of the device       *)
(* allocation the chunk was cut from.                                      *)
(***************************************************************************)
FreeChunks(c) == {k \in c : ~k.used}

\* MemoryPool.free_bytes(): bytes acquired by the pool and not in use.
free_bytes(c) == ALLOCATION_UNIT_SIZE * SumSizes(FreeChunks(c))

\* MemoryPool.total_bytes(): bytes acquired by the pool.
total_bytes(c) == ALLOCATION_UNIT_SIZE * SumSizes(c)

\* MemoryPool.used_bytes().
used_bytes(c) == total_bytes(c) - free_bytes(c)

\* A free chunk that is a whole device allocation (it has no neighbour).
Whole(c, k) == ~k.used /\ ~(\E j \in c : j # k /\ j.mem = k.mem)

\* MemoryPool.free_all_blocks(): releases the free chunks that are not split.
free_all_blocks(c) == {k \in c : ~Whole(c, k)}

\* The free chunks malloc may take for r units: the smallest that fit.
BestFit(c, r) ==
    LET fit == {k \in FreeChunks(c) : k.size >= r}
    IN {k \in fit : \A j \in fit : k.size <= j.size}

\* Taking r units of free chunk k: the rest stays a free chunk of the same
\* device allocation.
Split(c, k, r) ==
    (c \ {k})
    \cup {[base |-> k.base, size |-> r, mem |-> k.mem, used |-> TRUE]}
    \cup (IF k.size > r
          THEN {[base |-> k.base + r, size |-> k.size - r, mem |-> k.mem,
                 used |-> FALSE]}
          ELSE {})

NewBlock(c, r) ==
    c \cup {[base |-> DeviceBase(c, r), size |-> r, mem |-> DeviceBase(c, r),
             used |-> TRUE]}

Outcome(err, ptr, c) == [err |-> err, ptr |-> ptr, chunks |-> c]

\* MemoryPool.malloc(nbytes): the set of its possible outcomes.  A negative
\* size is refused when it is converted to size_t; size 0 gives the null
\* pointer; otherwise a free chunk is reused, or a block is taken from the
\* device, retried once after free_all_blocks when the device is full.
malloc(c, nbytes) ==
    IF nbytes < 0 THEN {Outcome("OverflowError", 0, c)}
    ELSE IF nbytes = 0 THEN {Outcome("none", 0, c)}
    ELSE LET r == Units(nbytes)
             f == free_all_blocks(c)
         IN IF BestFit(c, r) # {}
            THEN {Outcome("none", k.base, Split(c, k, r)) : k \in BestFit(c, r)}
            ELSE IF DeviceHasRoom(c, r)
            THEN {Outcome("none", DeviceBase(c, r), NewBlock(c, r))}
            ELSE IF DeviceHasRoom(f, r)
            THEN {Outcome("none", DeviceBase(f, r), NewBlock(f, r))}
            ELSE {Outcome("OutOfMemoryError", 0, f)}

\* The pool gets a chunk back when the last reference to its pool pointer
\* goes: the chunk is merged with the free neighbours of its device
\* allocation.  The null pointer of a zero-size request owns nothing.
PoolRelease(c, ptr) ==
    IF ptr = 0 \/ ~(\E k \in c : k.base = ptr /\ k.used) THEN c
    ELSE LET k == CHOOSE x \in c : x.base = ptr /\ x.used
             nxt == {j \in c : ~j.used /\ j.mem = k.mem /\ j.base = k.base + k.size}
             prv == {j \in c : ~j.used /\ j.mem = k.mem /\ j.base + j.size = k.base}
             grp == {k} \cup nxt \cup prv
             lo == CHOOSE b \in {j.base : j \in grp} :
                       \A j \in grp : b <= j.base
         IN (c \ grp)
            \cup {[base |-> lo, size |-> SumSizes(grp), mem |-> k.mem,
                   used |-> FALSE]}

(***************************************************************************)
(* CUDA runtime, as simple_emm_plugin.py binds it through ctypes.          *)
(***************************************************************************)
\* cudaMalloc(&ptr, size): the return code (0 is cudaSuccess).  ctypes turns
\* a negative size into a huge c_size_t, which the device cannot satisfy.
cudaMalloc_ret(c, size) ==
    IF size < 0 THEN 2
    ELSE IF size = 0 THEN 0
    ELSE IF DeviceHasRoom(c, Units(size)) THEN 0 ELSE 2

cudaMalloc_ptr(c, size) ==
    IF cudaMalloc_ret(c, size) = 0 /\ size > 0 THEN DeviceBase(c, Units(size))
    ELSE 0

cudaMalloc_mem(c, size) ==
    IF cudaMalloc_ret(c, size) = 0 /\ size > 0 THEN NewBlock(c, Units(size))
    ELSE c

\* cudaFree(ptr): freeing the null pointer is a successful no-operation;
\* freeing an address that is not a live allocation is an error.
cudaFree_ret(c, ptr) ==
    IF ptr = 0 \/ (\E k \in c : k.base = ptr) THEN 0 ELSE 1

cudaFree_mem(c, ptr) == {k \in c : k.base # ptr}

(***************************************************************************)
(* Initial state: the manager objects are constructed, nothing is          *)
(* allocated (CuPyNumbaManager.__init__).                                  *)
(***************************************************************************)
EmptyTable == [k \in {} |-> 0]

Init ==
    /\ strategy \in {"cupy", "simple"}
    /\ initCalled = [m \in Managers |-> FALSE]
    /\ mp = [m \in Managers |-> None]
    /\ allocations = [m \in Managers |-> EmptyTable]
    /\ ptrs = <<>>
    /\ deferDepth = [m \in Managers |-> 0]
    /\ chunks = {}
    /\ last = Call("init", "ctx0", 0, "ok", "none")

(***************************************************************************)
(* MemoryPointer lifetime (numba.cuda.MemoryPointer): the object holds the *)
(* finalizer it was given; the finalizer is called once, when the last     *)
(* reference to the object is dropped.  A finalizer closure is the record  *)
(* of what it captured.                                                    *)
(***************************************************************************)
MemoryPointer(m, ptr, nbytes, fin) ==
    [mgr |-> m, ptr |-> ptr, nbytes |-> nbytes, refs |-> 1, finRuns |-> 0,
     fin |-> fin]

\* A collected MemoryPointer: only the history of its finalizer is kept.
Collected(p, ran) ==
    [mgr |-> p.mgr, ptr |-> 0, nbytes |-> 0, refs |-> 0,
     finRuns |-> p.finRuns + (IF ran THEN 1 ELSE 0),
     fin |-> [kind |-> "none", table |-> p.mgr, ptr |-> 0]]

Live(i) == i \in 1..Len(ptrs) /\ ptrs[i].refs > 0

(***************************************************************************)
(* cupy_emm_plugin.py: CuPyNumbaManager.                                   *)
(***************************************************************************)
\* initialize: binds the manager to CuPy's default memory pool.
CuPyNumbaManager_initialize(m) ==
    /\ strategy = "cupy"
    /\ initCalled' = [initCalled EXCEPT ![m] = TRUE]
    /\ mp' = [mp EXCEPT ![m] = POOL]
    /\ last' = Call("initialize", m, 0, "ok", "none")
    /\ UNCHANGED <<strategy, allocations, ptrs, deferDepth, chunks>>

\* Mutant: the pool is looked up at the call instead of in initialize.
pool_bound_always(m) == TRUE

\* self._mp.malloc needs self._mp: on None the attribute lookup raises.
pool_bound(m) == mp[m] # None

\* Mutant: the table entry is written whether or not malloc returned.
record_allocation_unchecked(t, o, id) ==
    [k \in DOMAIN t \cup {o.ptr} |-> IF k = o.ptr THEN id ELSE t[k]]

\* self._allocations[cp_mp.ptr] = cp_mp, reached only when malloc returned.
\* The table maps the address to the allocation, named by its serial number.
record_allocation(t, o, id) ==
    IF o.err = "none"
    THEN [k \in DOMAIN t \cup {o.ptr} |-> IF k = o.ptr THEN id ELSE t[k]]
    ELSE t

\* _make_finalizer: the closure captures the manager's table and the address.
CuPyNumbaManager_make_finalizer(m, ptr) ==
    [kind |-> "pop", table |-> m, ptr |-> ptr]

\* Mutant: the finalizer leaves the record in the table.
finalizer_pop_missing(t, ptr) == t

\* allocations.pop(ptr) in the finalizer.
finalizer_pop(t, ptr) == [k \in DOMAIN t \ {ptr} |-> t[k]]

\* memalloc: no check of nbytes and none of the manager's state comes before
\* the call of the pool.  The record of the call says whether the pool's
\* allocator ran: a negative size is refused at the call, before it does.
CuPyNumbaManager_memalloc(m, nbytes) ==
    /\ strategy = "cupy"
    /\ Len(ptrs) < MaxAllocs
    /\ IF ~pool_bound(m)
       THEN /\ last' = Call("memalloc", m, nbytes, "AttributeError", "none")
            /\ UNCHANGED <<allocations, ptrs, chunks>>
       ELSE \E o \in malloc(chunks, nbytes) :
            /\ chunks' = o.chunks
            /\ allocations' =
                 [allocations EXCEPT
                    ![m] = record_allocation(@, o, Len(ptrs) + 1)]
            /\ ptrs' =
                 IF o.err = "none"
                 THEN Append(ptrs,
                             MemoryPointer(m, o.ptr, nbytes,
                                 CuPyNumbaManager_make_finalizer(m, o.ptr)))
                 ELSE ptrs
            /\ last' = Call("memalloc", m, nbytes,
                            IF o.err = "none" THEN "ok" ELSE o.err,
                            IF o.err = "OverflowError" THEN "none" ELSE "malloc")
    /\ UNCHANGED <<strategy, initCalled, mp, deferDepth>>

\* get_memory_info: MemoryInfo(free=self._mp.free_bytes(),
\* total=self._mp.total_bytes()), the pool's figures and not the device's.
pool_memory_info(c) == [free |-> free_bytes(c), total |-> total_bytes(c)]

CuPyNumbaManager_get_memory_info(m) ==
    /\ strategy = "cupy"
    /\ last' =
         IF pool_bound(m)
         THEN [Call("get_memory_info", m, 0, "ok", "free_bytes") EXCEPT
                 !.free = pool_memory_info(chunks).free,
                 !.total = pool_memory_info(chunks).total]
         ELSE Call("get_memory_info", m, 0, "AttributeError", "none")
    /\ UNCHANGED <<strategy, initCalled, mp, allocations, ptrs, deferDepth,
                   chunks>>

\* Mutant: reset frees only when the manager holds no allocation.
reset_frees_when_idle(m) == mp[m] # None /\ allocations[m] = [k \in {} |-> 0]

\* Mutant: the condition of reset is inverted.
reset_frees_inverted(m) == mp[m] = None

\* reset: "if self._mp:" is its only condition.
reset_frees(m) == mp[m] # None

\* The record of a reset keeps the free and total bytes the pool reported
\* when the call began.
CuPyNumbaManager_reset(m) ==
    /\ strategy = "cupy"
    /\ chunks' = IF reset_frees(m) THEN free_all_blocks(chunks) ELSE chunks
    /\ last' = [Call("reset", m, 0, "ok",
                     IF reset_frees(m) THEN "free_all_blocks" ELSE "none")
                  EXCEPT !.free = pool_memory_info(chunks).free,
                         !.total = pool_memory_info(chunks).total]
    /\ UNCHANGED <<strategy, initCalled, mp, allocations, ptrs, deferDepth>>

\* Mutant: finalizers are held back while a scope is active.
defers_finalizers_in_scope(m) == deferDepth[m] > 0

\* defer_cleanup: "This doesn't actually defer returning memory back to the
\* pool": the scope only wraps the base class's, which holds back Numba's own
\* pending deallocations, never a plugin's finalizer.
defers_finalizers(m) == FALSE

defer_cleanup_enter(m) ==
    /\ strategy = "cupy"
    /\ deferDepth[m] < MaxDepth
    /\ deferDepth' = [deferDepth EXCEPT ![m] = @ + 1]
    /\ last' = Call("defer_enter", m, 0, "ok", "none")
    /\ UNCHANGED <<strategy, initCalled, mp, allocations, ptrs, chunks>>

defer_cleanup_exit(m) ==
    /\ strategy = "cupy"
    /\ deferDepth[m] > 0
    /\ deferDepth' = [deferDepth EXCEPT ![m] = @ - 1]
    /\ last' = Call("defer_exit", m, 0, "ok", "none")
    /\ UNCHANGED <<strategy, initCalled, mp, allocations, ptrs, chunks>>

(***************************************************************************)
(* simple_emm_plugin.py: my_alloc, my_free, MyEMMPlugin.                   *)
(***************************************************************************)
\* my_alloc: raises on a nonzero return code of cudaMalloc.
my_alloc_raises(c, size) == cudaMalloc_ret(c, size) # 0

\* Mutant: make_finalizer does not return its closure, so the
\* MemoryPointer is built with finalizer=None.
make_finalizer_unreturned(m, ptr) == [kind |-> "none", table |-> m, ptr |-> ptr]

\* make_finalizer: the closure captures the address.
make_finalizer(m, ptr) == [kind |-> "my_free", table |-> m, ptr |-> ptr]

\* MyEMMPlugin.memalloc.
MyEMMPlugin_memalloc(m, size) ==
    /\ strategy = "simple"
    /\ Len(ptrs) < MaxAllocs
    /\ IF my_alloc_raises(chunks, size)
       THEN /\ last' = [Call("memalloc", m, size, "RuntimeError", "cudaMalloc")
                          EXCEPT !.ret = cudaMalloc_ret(chunks, size)]
            /\ UNCHANGED <<ptrs, chunks>>
       ELSE /\ chunks' = cudaMalloc_mem(chunks, size)
            /\ ptrs' = Append(ptrs,
                   MemoryPointer(m, cudaMalloc_ptr(chunks, size), size,
                       make_finalizer(m, cudaMalloc_ptr(chunks, size))))
            /\ last' = Call("memalloc", m, size, "ok", "cudaMalloc")
    /\ UNCHANGED <<strategy, initCalled, mp, allocations, deferDepth>>

\* MyEMMPlugin.initialize: "No setup required": the body is pass.
MyEMMPlugin_initialize(m) ==
    /\ strategy = "simple"
    /\ initCalled' = [initCalled EXCEPT ![m] = TRUE]
    /\ last' = Call("initialize", m, 0, "ok", "none")
    /\ UNCHANGED <<strategy, mp, allocations, ptrs, deferDepth, chunks>>

\* my_free(ptr): calls cudaFree and drops its return code.
my_free_res(c, ptr) == "ok"

my_free(ptr) ==
    /\ strategy = "simple"
    /\ chunks' = cudaFree_mem(chunks, ptr)
    /\ last' = [Call("my_free", "ctx0", ptr, my_free_res(chunks, ptr), "cudaFree")
                  EXCEPT !.ret = cudaFree_ret(chunks, ptr)]
    /\ UNCHANGED <<strategy, initCalled, mp, allocations, ptrs, deferDepth>>

\* MyEMMPlugin.get_memory_info: my_memory_info, that is cudaMemGetInfo.
MyEMMPlugin_get_memory_info(m) ==
    /\ strategy = "simple"
    /\ last' = [Call("get_memory_info", m, 0, "ok", "cudaMemGetInfo") EXCEPT
                  !.free = ALLOCATION_UNIT_SIZE * (Capacity - SumSizes(chunks)),
                  !.total = ALLOCATION_UNIT_SIZE * Capacity]
    /\ UNCHANGED <<strategy, initCalled, mp, allocations, ptrs, deferDepth,
                   chunks>>

(***************************************************************************)
(* References to a MemoryPointer: taking one, and dropping one.  Dropping  *)
(* the last one runs the finalizer the plugin gave the MemoryPointer.      *)
(***************************************************************************)
Share(i) ==
    /\ Live(i)
    /\ ptrs[i].refs < MaxRefs
    /\ ptrs' = [ptrs EXCEPT ![i].refs = @ + 1]
    /\ last' = Call("share", ptrs[i].mgr, 0, "ok", "none")
    /\ UNCHANGED <<strategy, initCalled, mp, allocations, deferDepth, chunks>>

\* The finalizer of CuPyNumbaManager._make_finalizer, run for closure f.
finalizer(i, f) ==
    LET t == allocations[f.table]
        hit == f.ptr \in DOMAIN t
    IN /\ allocations' =
            IF hit THEN [allocations EXCEPT ![f.table] = finalizer_pop(@, f.ptr)]
            ELSE allocations
       /\ chunks' = IF hit THEN PoolRelease(chunks, f.ptr) ELSE chunks
       /\ last' = Call("drop", ptrs[i].mgr, i,
                       IF hit THEN "ok" ELSE "KeyError", "pop")

\* The finalizer of make_finalizer, run for closure f: my_free(ptr).
my_finalizer(i, f) ==
    /\ chunks' = cudaFree_mem(chunks, f.ptr)
    /\ last' = [Call("drop", ptrs[i].mgr, i, my_free_res(chunks, f.ptr),
                     "cudaFree")
                  EXCEPT !.ret = cudaFree_ret(chunks, f.ptr)]
    /\ UNCHANGED allocations

Drop(i) ==
    /\ Live(i)
    /\ LET p == ptrs[i]
           runs == p.fin.kind # "none" /\ ~defers_finalizers(p.mgr)
       IN IF p.refs > 1
          THEN /\ ptrs' = [ptrs EXCEPT ![i].refs = @ - 1]
               /\ last' = Call("drop", p.mgr, 0, "held", "none")
               /\ UNCHANGED <<allocations, chunks>>
          ELSE /\ ptrs' = [ptrs EXCEPT ![i] = Collected(p, runs)]
               /\ IF ~runs
                  THEN /\ last' = Call("drop", p.mgr, i, "unfinalized", "none")
                       /\ UNCHANGED <<allocations, chunks>>
                  ELSE IF p.fin.kind = "pop"
                  THEN finalizer(i, p.fin)
                  ELSE my_finalizer(i, p.fin)
    /\ UNCHANGED <<strategy, initCalled, mp, deferDepth>>

(***************************************************************************)
(* The specification.                                                      *)
(***************************************************************************)
Next ==
    \/ \E m \in Managers : CuPyNumbaManager_initialize(m)
    \/ \E m \in Managers, n \in Sizes : CuPyNumbaManager_memalloc(m, n)
    \/ \E m \in Managers : CuPyNumbaManager_get_memory_info(m)
    \/ \E m \in Managers : CuPyNumbaManager_reset(m)
    \/ \E m \in Managers : defer_cleanup_enter(m)
    \/ \E m \in Managers : defer_cleanup_exit(m)
    \/ \E m \in DirectManagers : MyEMMPlugin_initialize(m)
    \/ \E m \in DirectManagers, n \in Sizes : MyEMMPlugin_memalloc(m, n)
    \/ \E m \in DirectManagers : MyEMMPlugin_get_memory_info(m)
    \/ \E i \in 1..MaxAllocs : Live(i) /\ my_free(ptrs[i].ptr)
    \/ \E i \in 1..MaxAllocs : Share(i)
    \/ \E i \in 1..MaxAllocs : Drop(i)

Spec == Init /\ [][Next]_vars

(***************************************************************************)
(* Vocabulary of the properties.                                           *)
(***************************************************************************)
Born == 1..Len(ptrs)

LiveOf(m) == {i \in Born : ptrs[i].refs > 0 /\ ptrs[i].mgr = m}

UsedChunks(c) == {k \in c : k.used}

\* Successful allocations of manager m, and finalizer runs of its pointers.
RECURSIVE SumFinRuns(_)
SumFinRuns(is) ==
    IF is = {} THEN 0
    ELSE LET i == CHOOSE x \in is : TRUE
         IN ptrs[i].finRuns + SumFinRuns(is \ {i})

nAllocated(m) == Cardinality({i \in Born : ptrs[i].mgr = m})
nFinalized(m) == SumFinRuns({i \in Born : ptrs[i].mgr = m})

\* Bytes the pool set aside for the live buffers: each size rounded up.
RECURSIVE RoundedBytes(_)
RoundedBytes(is) ==
    IF is = {} THEN 0
    ELSE LET i == CHOOSE x \in is : TRUE
         IN ALLOCATION_UNIT_SIZE * Units(ptrs[i].nbytes) + RoundedBytes(is \ {i})

RECURSIVE RequestedBytes(_)
RequestedBytes(is) ==
    IF is = {} THEN 0
    ELSE LET i == CHOOSE x \in is : TRUE
         IN ptrs[i].nbytes + RequestedBytes(is \ {i})

\* The step is a call of memalloc / reset (every action writes last, so a
\* step that leaves last.op = op is a call of op).
IsCall(op) == last'.op = op

\* The step drops the last reference to pointer i.
LastDrop(i) == i \in Born /\ ptrs[i].refs = 1 /\ ptrs'[i].refs = 0

(***************************************************************************)
(* C1.  On a pool-backed manager the number of entries of _allocations is  *)
(* the number of successful allocations minus the number of finalizers     *)
(* that have run.                                                          *)
(***************************************************************************)
C1_TableCountsLiveBuffers ==
    strategy = "cupy" =>
        \A m \in Managers :
            Cardinality(DOMAIN allocations[m]) = nAllocated(m) - nFinalized(m)

(***************************************************************************)
(* C2.  The finalizer of every MemoryPointer runs exactly once, whatever   *)
(* number of references was taken and dropped: it has not run while a      *)
(* reference is held, and it has run once when none is left.               *)
(***************************************************************************)
C2_FinalizerExactlyOnce ==
    \A i \in Born :
        /\ ptrs[i].refs > 0 => ptrs[i].finRuns = 0
        /\ ptrs[i].refs = 0 => ptrs[i].finRuns = 1

\* A reference to a shared pointer was just dropped and its finalizer has not
\* run, while another pointer has been released and finalized once.
C2_Witness ==
    /\ last.op = "drop" /\ last.res = "held"
    /\ \E i \in Born : ptrs[i].refs = 1 /\ ptrs[i].finRuns = 0
    /\ \E j \in Born : ptrs[j].refs = 0 /\ ptrs[j].finRuns = 1

C6_NonPositiveSizeRejected ==
    [][(IsCall("memalloc") /\ last'.arg <= 0)
          => /\ last'.res # "ok"
             /\ last'.backend = "none"
             /\ allocations' = allocations
             /\ ptrs' = ptrs]_vars

(***************************************************************************)
(* C7.  A memalloc that fails because the backing allocator cannot satisfy *)
(* the request leaves the manager as it was: no table entry, no            *)
(* MemoryPointer, no chunk of the pool taken into use.                     *)
(***************************************************************************)
C7_FailedAllocationChangesNothing ==
    [][(IsCall("memalloc") /\ last'.res \in {"OutOfMemoryError", "RuntimeError"})
          => /\ allocations' = allocations
             /\ ptrs' = ptrs
             /\ mp' = mp
             /\ UsedChunks(chunks') = UsedChunks(chunks)]_vars

\* The pool has just refused a request for lack of memory while the manager
\* holds live allocations.
C7_Witness ==
    /\ last.op = "memalloc" /\ last.res = "OutOfMemoryError"
    /\ allocations[last.mgr] # EmptyTable
    /\ LiveOf(last.mgr) # {}

(***************************************************************************)
(* C8.  A release of an address that is not tracked as live ends in an     *)
(* error: a pool-backed finalizer whose address is no longer in the table, *)
(* and a direct free whose cudaFree reports failure.                       *)
(***************************************************************************)
C8_StaleReleaseIsAnError ==
    [][/\ \A i \in Born :
            (LastDrop(i) /\ ptrs[i].fin.kind = "pop"
                /\ ptrs[i].fin.ptr \notin DOMAIN allocations[ptrs[i].fin.table])
                => last'.res # "ok"
       /\ (last'.backend = "cudaFree" /\ last'.ret # 0) => last'.res # "ok"
      ]_vars

(***************************************************************************)
(* C9.  As claimed: the free memory get_memory_info() reports after        *)
(* reset() is at least what it reported before.                            *)
(***************************************************************************)
C9_Original ==
    [][(IsCall("reset") /\ mp[last'.mgr] # None)
          => pool_memory_info(chunks').free >= pool_memory_info(chunks).free
      ]_vars

(***************************************************************************)
(* C9, amended.  get_memory_info() reports the pool's cache, which reset() *)
(* empties: the free memory reported after reset() is at most what was     *)
(* reported before, lower by exactly the bytes of the free blocks that     *)
(* were not split, of which none is left; total falls by the same amount,  *)
(* so the bytes in use (total - free) are unchanged.                       *)
(***************************************************************************)
C9_ResetNeverRaisesReportedFree ==
    [][(IsCall("reset") /\ mp[last'.mgr] # None) =>
          LET before == pool_memory_info(chunks)
              after == pool_memory_info(chunks')
              whole == {k \in chunks : Whole(chunks, k)}
          IN /\ after.free <= before.free
             /\ after.free = before.free - ALLOCATION_UNIT_SIZE * SumSizes(whole)
             /\ after.total - after.free = before.total - before.free
             /\ \A k \in chunks' : ~Whole(chunks', k)]_vars

\* reset has just run on an initialized manager and the pool reports less
\* free memory than it did when the call began.
C9_Witness ==
    /\ last.op = "reset" /\ last.backend = "free_all_blocks"
    /\ mp[last.mgr] # None
    /\ pool_memory_info(chunks).free < last.free

(***************************************************************************)
(* C10.  As claimed, for one allocation: a successful allocation of a      *)
(* positive size adds one table entry and lowers the reported free bytes   *)
(* by at least the requested size.                                         *)
(***************************************************************************)
C10_Original ==
    [][(strategy = "cupy" /\ IsCall("memalloc") /\ last'.res = "ok"
          /\ last'.arg > 0)
          => /\ Cardinality(DOMAIN allocations'[last'.mgr])
                  = Cardinality(DOMAIN allocations[last'.mgr]) + 1
             /\ pool_memory_info(chunks').free
                  <= pool_memory_info(chunks).free - last'.arg]_vars

(***************************************************************************)
(* C10, amended.  While buffers of positive size are live the table of     *)
(* each manager holds exactly one entry for each of them, under pairwise   *)
(* distinct addresses, and no entry for a buffer that is not live; the     *)
(* bytes the pool has in use (total - free), not its free bytes, are the   *)
(* sum of the rounded sizes of the live buffers, hence at least the sum of *)
(* the requested sizes.  An allocation never raises the reported free      *)
(* bytes; dropping a buffer gives its rounded size back to them.  So with  *)
(* all buffers dropped the tables are empty and nothing is in use.         *)
(***************************************************************************)
C10_TableAndPoolFollowLiveBuffers ==
    /\ [](strategy = "cupy" =>
            LET live == UNION {LiveOf(m) : m \in Managers}
                info == pool_memory_info(chunks)
            IN /\ \A m \in Managers :
                    /\ DOMAIN allocations[m] \subseteq {ptrs[i].ptr : i \in LiveOf(m)}
                    /\ \A i \in LiveOf(m) :
                          ptrs[i].nbytes > 0 => ptrs[i].ptr \in DOMAIN allocations[m]
               /\ \A i, j \in live :
                    (i # j /\ ptrs[i].nbytes > 0) => ptrs[i].ptr # ptrs[j].ptr
               /\ info.total - info.free = RoundedBytes(live)
               /\ info.total - info.free >= RequestedBytes(live))
    /\ [][strategy = "cupy" =>
            /\ (IsCall("memalloc") /\ last'.res = "ok")
                  => pool_memory_info(chunks').free <= pool_memory_info(chunks).free
            /\ \A i \in Born :
                  LastDrop(i)
                      => pool_memory_info(chunks').free
                           = pool_memory_info(chunks).free
                               + ALLOCATION_UNIT_SIZE * Units(ptrs[i].nbytes)
         ]_vars

\* Two buffers of positive size were allocated by one manager and both have
\* been dropped: the tables are empty and their bytes are free in the pool.
C10_Witness ==
    /\ strategy = "cupy"
    /\ last.op = "drop" /\ last.res = "ok"
    /\ Len(ptrs) = 2
    /\ \A i \in Born : ptrs[i].refs = 0 /\ ptrs[i].mgr = last.mgr
    /\ \A m \in Managers : allocations[m] = EmptyTable
    /\ pool_memory_info(chunks).free = pool_memory_info(chunks).total
    /\ pool_memory_info(chunks).free >= 2 * ALLOCATION_UNIT_SIZE

(***************************************************************************)
(* Managers that share the pool.  Every action is an operation of one      *)
(* manager, the one its record names: a call on the manager, or the        *)
(* taking, dropping and finalizing of one of its pointers.                 *)
(***************************************************************************)
Bound == {m \in Managers : mp[m] = POOL}

SharedPool == strategy = "cupy" /\ Cardinality(Bound) >= 2

\* The table of m holds the live allocations of m and nothing else, each
\* under its own address.
OwnTableExact(m) ==
    /\ {allocations[m][k] : k \in DOMAIN allocations[m]} = LiveOf(m)
    /\ \A k \in DOMAIN allocations[m] : ptrs[allocations[m][k]].ptr = k

\* The step leaves manager m2 as it was: its table, its pointers, and the
\* chunks of the pool its live buffers occupy.
Untouched(m2) ==
    /\ allocations'[m2] = allocations[m2]
    /\ mp'[m2] = mp[m2]
    /\ \A i \in Born : ptrs[i].mgr = m2 => ptrs'[i] = ptrs[i]
    /\ \A i \in LiveOf(m2) :
          \A k \in UsedChunks(chunks) : k.base = ptrs[i].ptr => k \in chunks'

(***************************************************************************)
(* C11, the part about other managers.  An operation of one manager        *)
(* (memalloc, a finalizer, reset, which empties the cache of the shared    *)
(* pool, or any other) leaves every other manager's table, pointers and    *)
(* the chunks of its live buffers as they were.                            *)
(***************************************************************************)
C11_OtherManagersUntouched ==
    [][strategy = "cupy" =>
          \A m2 \in Managers \ {last'.mgr} : Untouched(m2)]_vars

\* reset of one manager has just emptied the cache of the pool while the
\* other manager, bound to the same pool, holds a live buffer of positive
\* size that is still in its table and in a chunk in use.
C11_OtherManagersWitness ==
    /\ SharedPool
    /\ last.op = "reset" /\ last.backend = "free_all_blocks"
    /\ pool_memory_info(chunks).free < last.free
    /\ \E m2 \in Managers \ {last.mgr} :
          \E i \in LiveOf(m2) :
             /\ ptrs[i].nbytes > 0
             /\ ptrs[i].ptr \in DOMAIN allocations[m2]
             /\ \E k \in UsedChunks(chunks) : k.base = ptrs[i].ptr

(***************************************************************************)
(* C11.  While two or more managers share the pool, the table of each      *)
(* manager holds exactly the live allocations of that manager, and an      *)
(* operation of one manager never removes, overwrites or invalidates a     *)
(* live allocation of another.                                             *)
(***************************************************************************)
C11_TablesHoldOwnLiveAllocations ==
    /\ [](SharedPool => \A m \in Managers : OwnTableExact(m))
    /\ [][strategy = "cupy" =>
            \A m2 \in Managers \ {last'.mgr} : Untouched(m2)]_vars

(***************************************************************************)
(* C12.  On a pool-backed manager every address in the table is the        *)
(* address of exactly one live, not yet finalized buffer of the manager;   *)
(* the addresses of the manager's live buffers are pairwise distinct, so   *)
(* no memalloc has overwritten the entry of a live buffer; and no          *)
(* finalizer has found its address already removed (the KeyError of a      *)
(* second pop of the same address).                                        *)
(***************************************************************************)
C12_TableKeysAreLiveAndDistinct ==
    strategy = "cupy" =>
        /\ \A m \in Managers :
              /\ \A k \in DOMAIN allocations[m] :
                    Cardinality({i \in LiveOf(m) : ptrs[i].ptr = k}) = 1
              /\ \A i, j \in LiveOf(m) : i # j => ptrs[i].ptr # ptrs[j].ptr
        /\ last.res # "KeyError"

\* The same for buffers of positive size only, where it holds: it is the
\* null pointer of the zero-size requests that breaks C12.
C12_PositiveSizesOnly ==
    strategy = "cupy" =>
        \A m \in Managers :
           LET pos == {i \in LiveOf(m) : ptrs[i].nbytes > 0}
           IN /\ \A k \in DOMAIN allocations[m] \ {0} :
                    Cardinality({i \in pos : ptrs[i].ptr = k}) = 1
              /\ \A i, j \in pos : i # j => ptrs[i].ptr # ptrs[j].ptr

=============================================================================
